---- MODULE Spec2Model ----
(***************************************************************************)
(* Model of the webp-convertor-backend HTTP service (src/index.js).        *)
(*                                                                         *)
(* One POST /upload request runs through the multer middleware             *)
(* (upload.array("images", 20) with the fileFilter and limits.files = 20), *)
(* then through the async handler, which yields at `await                  *)
(* image.metadata()` and at `await image.webp(..).toFile(..)`.  Requests   *)
(* interleave at those awaits and share the output directory, Date.now()   *)
(* and Math.random().                                                      *)
(*                                                                         *)
(* Strings that the code inspects (query parameters, MIME types) are       *)
(* sequences of one-character strings.  JavaScript values of the handler's *)
(* numeric locals are records [k, n]: null, NaN, or a number n.            *)
(* Divisions are exact rationals, compared and rounded by cross            *)
(* multiplication.  The files multer stores in the upload directory are    *)
(* not modelled; only the number of accepted files is kept.                *)
(***************************************************************************)
EXTENDS Integers, Sequences, FiniteSets, TLC

VARIABLES req, res, disk, now

vars == <<req, res, disk, now>>

(***************************************************************************)
(* Bounds of the model.                                                    *)
(***************************************************************************)
MaxBatch == 2         \* largest batch that is let into the handler
MaxTime == 1          \* Date.now() ranges over 0..MaxTime
MaxRand == 1          \* Math.round(Math.random() * 1e5) ranges over 0..MaxRand
MaxSide == 3          \* SpecPlan: requested width/height range over 1..MaxSide
MaxDim == 3           \* SpecPlan: source width/height range over 1..MaxDim

(***************************************************************************)
(* Program constants.                                                      *)
(***************************************************************************)
FilesLimit == 20      \* limits.files and the maxCount of upload.array
MaxDimension == 5000  \* upper limit of width and height
MaxQuality == 100     \* upper limit of quality
DefaultQuality == 80  \* quality when the parameter is falsy

(***************************************************************************)
(* JavaScript values.                                                      *)
(***************************************************************************)
Null == [k |-> "null", n |-> 0]
NaN == [k |-> "nan", n |-> 0]
Num(x) == [k |-> "num", n |-> x]

\* ToBoolean of null, NaN or a number
Truthy(v) == v.k = "num" /\ v.n # 0

\* a mutant of OrNull: the argument is passed as it is
OrNullKept(v) == v

\* a || null
OrNull(v) == IF Truthy(v) THEN v ELSE Null

\* isNaN(v) for a number or NaN
IsNaN(v) == v.k = "nan"

\* v < c and v > c for a constant c: comparisons with NaN are false,
\* null compares as 0
Lt(v, c) == v.k # "nan" /\ v.n < c
Gt(v, c) == v.k # "nan" /\ v.n > c

(***************************************************************************)
(* Strings, and parseInt(string) with no radix.                            *)
(***************************************************************************)
Undefined == [def |-> FALSE, s |-> <<>>]
Str(s) == [def |-> TRUE, s |-> s]

\* ToBoolean of undefined or a string: the empty string is falsy
TruthyStr(q) == q.def /\ Len(q.s) > 0

StartsWith(s, p) == Len(s) >= Len(p) /\ SubSeq(s, 1, Len(p)) = p

DigitChars == <<"0", "1", "2", "3", "4", "5", "6", "7", "8", "9",
                "a", "b", "c", "d", "e", "f">>

\* the value of character c as a digit of the radix, or -1
DigitVal(c, radix) ==
  LET hits == {i \in 1..radix : DigitChars[i] = c}
  IN IF hits = {} THEN -1 ELSE (CHOOSE i \in hits : TRUE) - 1

RECURSIVE StripLeft(_)
StripLeft(s) ==
  IF s # <<>> /\ Head(s) = " " THEN StripLeft(Tail(s)) ELSE s

\* number of leading characters of s that are digits of the radix
RECURSIVE DigitPrefixLen(_, _)
DigitPrefixLen(s, radix) ==
  IF s # <<>> /\ DigitVal(Head(s), radix) >= 0
  THEN 1 + DigitPrefixLen(Tail(s), radix)
  ELSE 0

RECURSIVE DigitsValue(_, _, _)
DigitsValue(s, radix, acc) ==
  IF s = <<>> THEN acc
  ELSE DigitsValue(Tail(s), radix, acc * radix + DigitVal(Head(s), radix))

ParseInt(s) ==
  LET t == StripLeft(s)
      signed == t # <<>> /\ Head(t) \in {"+", "-"}
      sign == IF t # <<>> /\ Head(t) = "-" THEN -1 ELSE 1
      u == IF signed THEN Tail(t) ELSE t
      hex == Len(u) >= 2 /\ u[1] = "0" /\ u[2] \in {"x", "X"}
      radix == IF hex THEN 16 ELSE 10
      v == IF hex THEN SubSeq(u, 3, Len(u)) ELSE u
      len == DigitPrefixLen(v, radix)
  IN IF len = 0 THEN NaN
     ELSE Num(sign * DigitsValue(SubSeq(v, 1, len), radix, 0))

(***************************************************************************)
(* Double arithmetic.  aspectRatio = originalWidth / originalHeight is a   *)
(* double; it equals the rational exactly when the reduced denominator is  *)
(* a power of two.  Math.round(x) is the nearest integer, halves upwards.  *)
(* For x = p / q computed through aspectRatio (p >= 0, q > 0, dimensions   *)
(* below 2^16) the rounding error of the doubles is far smaller than the   *)
(* distance of a non-half p / q from the nearest half, so the result is    *)
(* the exact one unless p / q is exactly a half; then it is the upper      *)
(* neighbour when aspectRatio is exact, and either neighbour otherwise.    *)
(***************************************************************************)
ExactRatio(originalWidth, originalHeight) ==
  \E k \in 0..16 : (originalWidth * 2^k) % originalHeight = 0

\* a mutant of MathRound: Math.floor
MathFloor(p, q, exact) == {p \div q}

\* the values Math.round can give for p / q
MathRound(p, q, exact) ==
  IF (2 * p + q) % (2 * q) = 0 /\ ~exact
  THEN {(2 * p + q) \div (2 * q) - 1, (2 * p + q) \div (2 * q)}
  ELSE {(2 * p + q) \div (2 * q)}

(***************************************************************************)
(* Output files and responses.                                             *)
(***************************************************************************)
\* the requests in flight at once
Requests == {1, 2}

\* `${Date.now()}-${Math.round(Math.random() * 1e5)}.webp` as the pair
\* <<Date.now(), rounded random>>: both are printed in decimal around a
\* "-", so two names are equal exactly when the pairs are
OutputFilename(t, n) == <<t, n>>

OutputNames == {OutputFilename(t, n) : t \in 0..MaxTime, n \in 0..MaxRand}

NoName == <<-1, -1>>

\* the owner of an output file: the request and the index of the image
\* whose toFile wrote it last; NoFile when the name is not on disk
NoFile == <<0, 0>>

Url(name) == <<"https://webp-convertor-backend.onrender.com/images/", name>>

NoResponse == [status |-> 0, error |-> "", hasUrls |-> FALSE, urls |-> <<>>]

JsonError(status, message) ==
  [status |-> status, error |-> message, hasUrls |-> FALSE, urls |-> <<>>]

JsonUrls(urls) ==
  [status |-> 200, error |-> "", hasUrls |-> TRUE, urls |-> urls]

(***************************************************************************)
(* The multer middleware: fileFilter, the files limit, the error handler.  *)
(***************************************************************************)
ImagePrefix == <<"i", "m", "a", "g", "e", "/">>

OnlyImagesMessage == "Only image files are allowed"

\* fileFilter: the error passed to cb, "" when the file is accepted
FileFilter(mimetype) ==
  IF StartsWith(mimetype, ImagePrefix) THEN "" ELSE OnlyImagesMessage

\* the error-handling middleware
ErrorHandler(message) ==
  IF message = OnlyImagesMessage
  THEN JsonError(400, message)
  ELSE JsonError(500, "Internal server error")

\* the error multer raises for the part that arrives after `accepted`
\* files, "" when the file is stored: beyond limits.files busboy skips the
\* part and multer fails with LIMIT_FILE_COUNT before fileFilter is asked
MulterError(accepted, mimetype) ==
  IF accepted >= FilesLimit THEN "Too many files" ELSE FileFilter(mimetype)

\* multer reads the file parts of a body in order, `accepted` files being
\* stored already: the first error ends the reading
RECURSIVE MulterRead(_, _)
MulterRead(parts, accepted) ==
  IF parts = <<>>
  THEN [err |-> "", nfiles |-> accepted]
  ELSE IF MulterError(accepted, Head(parts)) # ""
  THEN [err |-> MulterError(accepted, Head(parts)), nfiles |-> accepted]
  ELSE MulterRead(Tail(parts), accepted + 1)

(***************************************************************************)
(* The handler: parsing and validation of the query.                       *)
(***************************************************************************)
TrueString == <<"t", "r", "u", "e">>

\* req.query.width ? parseInt(req.query.width) : null
ParseDimension(q) == IF TruthyStr(q) THEN ParseInt(q.s) ELSE Null

\* req.query.quality ? parseInt(req.query.quality) : 80
ParseQuality(q) == IF TruthyStr(q) THEN ParseInt(q.s) ELSE Num(DefaultQuality)

\* req.query.maintainAspectRatio === "true"
ParseFlag(q) == q.def /\ q.s = TrueString

\* a mutant of InvalidParams: the upper limit of quality is not checked
InvalidParamsNoUpper(width, height, quality) ==
  \/ Truthy(width) /\ (Lt(width, 1) \/ Gt(width, MaxDimension))
  \/ Truthy(height) /\ (Lt(height, 1) \/ Gt(height, MaxDimension))
  \/ IsNaN(quality)
  \/ Lt(quality, 1)

\* the condition of the "Invalid width, height, or quality" response
InvalidParams(width, height, quality) ==
  \/ Truthy(width) /\ (Lt(width, 1) \/ Gt(width, MaxDimension))
  \/ Truthy(height) /\ (Lt(height, 1) \/ Gt(height, MaxDimension))
  \/ IsNaN(quality)
  \/ Lt(quality, 1)
  \/ Gt(quality, MaxQuality)

\* the response of the checks that precede the loop, NoResponse when the
\* loop is entered
PreCheck(width, height, quality, nfiles) ==
  IF InvalidParams(width, height, quality)
  THEN JsonError(400, "Invalid width, height, or quality")
  ELSE IF nfiles = 0
  THEN JsonError(400, "No images provided")
  ELSE IF nfiles > FilesLimit
  THEN JsonError(400, "Maximum 20 images allowed")
  ELSE NoResponse

(***************************************************************************)
(* The handler: the resize plan of one image.                              *)
(***************************************************************************)
\* Math.round(height * aspectRatio) and Math.round(width / aspectRatio)
RoundTimesRatio(height, originalWidth, originalHeight) ==
  MathRound(height.n * originalWidth, originalHeight,
            ExactRatio(originalWidth, originalHeight))

RoundOverRatio(width, originalWidth, originalHeight) ==
  MathRound(width.n * originalHeight, originalWidth,
            ExactRatio(originalWidth, originalHeight))

\* a mutant of ResizePlans: the comparison of the box with the aspect
\* ratio is reversed
ResizePlansReversed(width, height, maintainAspectRatio, originalWidth, originalHeight) ==
  IF ~maintainAspectRatio
  THEN {[targetWidth |-> width, targetHeight |-> height]}
  ELSE IF Truthy(width) /\ Truthy(height)
  THEN IF width.n * originalHeight < originalWidth * height.n
       THEN {[targetWidth |-> Num(x), targetHeight |-> height] :
               x \in RoundTimesRatio(height, originalWidth, originalHeight)}
       ELSE {[targetWidth |-> width, targetHeight |-> Num(x)] :
               x \in RoundOverRatio(width, originalWidth, originalHeight)}
  ELSE IF Truthy(width)
  THEN {[targetWidth |-> width, targetHeight |-> Num(x)] :
          x \in RoundOverRatio(width, originalWidth, originalHeight)}
  ELSE IF Truthy(height)
  THEN {[targetWidth |-> Num(x), targetHeight |-> height] :
          x \in RoundTimesRatio(height, originalWidth, originalHeight)}
  ELSE {[targetWidth |-> width, targetHeight |-> height]}

\* the plans (targetWidth, targetHeight) the loop body can compute
ResizePlans(width, height, maintainAspectRatio, originalWidth, originalHeight) ==
  IF ~maintainAspectRatio
  THEN {[targetWidth |-> width, targetHeight |-> height]}
  ELSE IF Truthy(width) /\ Truthy(height)
  THEN IF width.n * originalHeight > originalWidth * height.n
       THEN {[targetWidth |-> Num(x), targetHeight |-> height] :
               x \in RoundTimesRatio(height, originalWidth, originalHeight)}
       ELSE {[targetWidth |-> width, targetHeight |-> Num(x)] :
               x \in RoundOverRatio(width, originalWidth, originalHeight)}
  ELSE IF Truthy(width)
  THEN {[targetWidth |-> width, targetHeight |-> Num(x)] :
          x \in RoundOverRatio(width, originalWidth, originalHeight)}
  ELSE IF Truthy(height)
  THEN {[targetWidth |-> Num(x), targetHeight |-> height] :
          x \in RoundTimesRatio(height, originalWidth, originalHeight)}
  ELSE {[targetWidth |-> width, targetHeight |-> height]}

\* the sharp pipeline of one image: whether resize was called and with
\* what, and the quality given to webp
NoImage == [resized |-> FALSE, w |-> Null, h |-> Null, quality |-> Null]

\* if (targetWidth || targetHeight) image.resize(targetWidth || null,
\* targetHeight || null); then image.webp({ quality })
Pipeline(targetWidth, targetHeight, quality) ==
  IF Truthy(targetWidth) \/ Truthy(targetHeight)
  THEN [resized |-> TRUE, w |-> OrNull(targetWidth), h |-> OrNull(targetHeight),
        quality |-> quality]
  ELSE [resized |-> FALSE, w |-> Null, h |-> Null, quality |-> quality]

\* sharp rejects a dimension that is defined and not a positive integer,
\* and a webp quality that is not an integer of 1..100
SharpThrows(image) ==
  \/ image.resized /\ image.w # Null /\ ~(image.w.k = "num" /\ image.w.n >= 1)
  \/ image.resized /\ image.h # Null /\ ~(image.h.k = "num" /\ image.h.n >= 1)
  \/ ~(image.quality.k = "num" /\ image.quality.n \in 1..100)

\* a mutant of PushUrl: urls.unshift(url)
PushUrlFront(urls, url) == <<url>> \o urls

\* urls.push(url)
PushUrl(urls, url) == Append(urls, url)

\* the response of the catch block
CatchResponse == JsonError(500, "Image conversion failed")

\* a mutant of Catch: the failure is caught inside the loop, which goes on
\* with the next file
CatchInsideLoop(q) ==
  IF q.i < q.nfiles
  THEN [q EXCEPT !.pc = "metadata", !.i = @ + 1]
  ELSE [q EXCEPT !.pc = "done"]

\* the handler invocation q after the catch block: the handler returns
Catch(q) == [q EXCEPT !.pc = "done"]

(***************************************************************************)
(* State.                                                                  *)
(*   req[r]  the request r and the locals of its handler invocation:       *)
(*           pc is "idle" (not sent yet), "multer" (received, the body     *)
(*           is being read), "metadata" / "toFile" (the handler is         *)
(*           suspended at that await for image i) or "done" (answered);    *)
(*           body is the MIME types of the file parts sent, in order;      *)
(*           nfiles is req.files.length; entered records that the handler  *)
(*           body ran; outputs lists the names toFile has written          *)
(*   res[r]  the response to r (status 0: none yet)                        *)
(*   disk    the output directory: name -> owner of the file               *)
(*   now     Date.now()                                                    *)
(***************************************************************************)
NoQuery == [width |-> Undefined, height |-> Undefined, quality |-> Undefined,
            maintainAspectRatio |-> Undefined]

\* the per-image locals before the loop body has set them
NoLocals == [outputFilename |-> NoName, originalWidth |-> 0, originalHeight |-> 0,
             targetWidth |-> Null, targetHeight |-> Null, image |-> NoImage]

InitReq ==
  [pc |-> "idle", query |-> NoQuery, body |-> <<>>, nfiles |-> 0,
   entered |-> FALSE,
   width |-> Null, height |-> Null, quality |-> Null,
   maintainAspectRatio |-> FALSE,
   i |-> 0, loc |-> NoLocals, urls |-> <<>>, outputs |-> <<>>]

Init ==
  /\ req = [r \in Requests |-> InitReq]
  /\ res = [r \in Requests |-> NoResponse]
  /\ disk = [f \in OutputNames |-> NoFile]
  /\ now = 0

(***************************************************************************)
(* Actions.                                                                *)
(***************************************************************************)
\* the clock advances
Tick ==
  /\ now < MaxTime
  /\ now' = now + 1
  /\ UNCHANGED <<req, res, disk>>

\* a client sends POST /upload with a query string and a multipart body
Receive(r, Queries, Bodies) ==
  /\ req[r].pc = "idle"
  /\ \E q \in Queries, b \in Bodies :
       req' = [req EXCEPT ![r].pc = "multer", ![r].query = q, ![r].body = b]
  /\ UNCHANGED <<res, disk, now>>

\* the start of one loop iteration, up to `await image.metadata()`
BeginImage(q, i, n) ==
  [q EXCEPT !.pc = "metadata", !.i = i,
            !.loc = [NoLocals EXCEPT !.outputFilename = OutputFilename(now, n)]]

\* the handler returns after its response
Return(q) == [q EXCEPT !.pc = "done"]

\* upload.array("images", 20) reads the body.  On an error the error
\* handler answers.  Otherwise the handler runs up to its first await, or
\* answers 400
Upload(r) ==
  /\ req[r].pc = "multer"
  /\ LET read == MulterRead(req[r].body, 0)
         width == ParseDimension(req[r].query.width)
         height == ParseDimension(req[r].query.height)
         quality == ParseQuality(req[r].query.quality)
         flag == ParseFlag(req[r].query.maintainAspectRatio)
         q == [req[r] EXCEPT !.nfiles = read.nfiles, !.entered = TRUE,
                             !.width = width, !.height = height,
                             !.quality = quality, !.maintainAspectRatio = flag]
         early == PreCheck(width, height, quality, read.nfiles)
     IN IF read.err # ""
        THEN /\ req' = [req EXCEPT ![r].pc = "done"]
             /\ res' = [res EXCEPT ![r] = ErrorHandler(read.err)]
        ELSE IF early # NoResponse
        THEN /\ req' = [req EXCEPT ![r] = Return(q)]
             /\ res' = [res EXCEPT ![r] = early]
        ELSE /\ \E n \in 0..MaxRand : req' = [req EXCEPT ![r] = BeginImage(q, 1, n)]
             /\ res' = res
  /\ UNCHANGED <<disk, now>>

\* image.metadata() resolves with the source dimensions: the handler
\* computes the plan, builds the pipeline and awaits toFile; an exception
\* thrown by sharp on the way goes to the catch block
MetadataResolved(r, SourceDims) ==
  /\ req[r].pc = "metadata"
  /\ \E d \in SourceDims :
     \E plan \in ResizePlans(req[r].width, req[r].height,
                             req[r].maintainAspectRatio, d[1], d[2]) :
       LET q == req[r]
           image == Pipeline(plan.targetWidth, plan.targetHeight, q.quality)
           loc == [q.loc EXCEPT !.originalWidth = d[1], !.originalHeight = d[2],
                                !.targetWidth = plan.targetWidth,
                                !.targetHeight = plan.targetHeight,
                                !.image = image]
       IN IF SharpThrows(image)
          THEN /\ req' = [req EXCEPT ![r] = Catch([q EXCEPT !.loc = loc])]
               /\ res' = [res EXCEPT ![r] = CatchResponse]
          ELSE /\ req' = [req EXCEPT ![r] = [q EXCEPT !.pc = "toFile", !.loc = loc]]
               /\ res' = res
  /\ UNCHANGED <<disk, now>>

\* image.metadata() rejects (the upload is not a decodable image)
MetadataRejected(r) ==
  /\ req[r].pc = "metadata"
  /\ req' = [req EXCEPT ![r] = Catch(req[r])]
  /\ res' = [res EXCEPT ![r] = CatchResponse]
  /\ UNCHANGED <<disk, now>>

\* toFile resolves: the output file is on disk, its URL is pushed and the
\* loop goes on with the next file or the handler answers 200
ToFileResolved(r) ==
  /\ req[r].pc = "toFile"
  /\ LET q == req[r]
         name == q.loc.outputFilename
         pushed == [q EXCEPT !.urls = PushUrl(@, Url(name)),
                             !.outputs = Append(@, name)]
     IN /\ disk' = [disk EXCEPT ![name] = <<r, q.i>>]
        /\ IF q.i < q.nfiles
           THEN /\ \E n \in 0..MaxRand :
                     req' = [req EXCEPT ![r] = BeginImage(pushed, q.i + 1, n)]
                /\ res' = res
           ELSE /\ req' = [req EXCEPT ![r] = Return(pushed)]
                /\ res' = [res EXCEPT ![r] = JsonUrls(pushed.urls)]
  /\ UNCHANGED now

\* toFile rejects (resize, encode or write failed); what it had written of
\* the output file, if anything, stays
ToFileRejected(r) ==
  /\ req[r].pc = "toFile"
  /\ \E partial \in BOOLEAN :
       disk' = IF partial
               THEN [disk EXCEPT ![req[r].loc.outputFilename] = <<r, req[r].i>>]
               ELSE disk
  /\ req' = [req EXCEPT ![r] = Catch(req[r])]
  /\ res' = [res EXCEPT ![r] = CatchResponse]
  /\ UNCHANGED now

(***************************************************************************)
(* Workloads.                                                              *)
(***************************************************************************)
Chars(n) == <<DigitChars[n + 1]>>

\* the decimal string of n >= 0
RECURSIVE Decimal(_)
Decimal(n) == IF n < 10 THEN Chars(n) ELSE Decimal(n \div 10) \o Chars(n % 10)

ImagePng == <<"i", "m", "a", "g", "e", "/", "p", "n", "g">>
TextPlain == <<"t", "e", "x", "t", "/", "p", "l", "a", "i", "n">>
ImageNoSlash == <<"i", "m", "a", "g", "e">>

\* a body of n file parts, all image/png but part `bad` (if any), of type m
Body(n, bad, m) == [k \in 1..n |-> IF k = bad THEN m ELSE ImagePng]

\* bodies of at most MaxBatch images, bodies with one part that is no
\* image, and bodies that reach or exceed the files limit without being
\* let into the handler
Bodies ==
  {Body(n, 0, TextPlain) : n \in 0..MaxBatch}
  \cup UNION {{Body(n, bad, m) : bad \in 1..n, m \in {TextPlain, ImageNoSlash}} :
              n \in 1..MaxBatch}
  \cup {Body(FilesLimit, FilesLimit, TextPlain)}
  \cup {Body(FilesLimit + 1, bad, TextPlain) : bad \in {0, 1, FilesLimit + 1}}

\* the steps of request r under a workload
Step(r, Queries, Uploads, SourceDims) ==
  \/ Receive(r, Queries, Uploads)
  \/ Upload(r)
  \/ MetadataResolved(r, SourceDims)
  \/ MetadataRejected(r)
  \/ ToFileResolved(r)
  \/ ToFileRejected(r)

\* Spec: two requests that differ in little run concurrently
FewQueries ==
  {[NoQuery EXCEPT !.width = w] : w \in {Undefined, Str(Decimal(2))}}

FewBodies ==
  {Body(n, 0, TextPlain) : n \in 1..MaxBatch} \cup {Body(1, 1, TextPlain)}

FewDims == {<<2, 1>>}

Next == Tick \/ \E r \in Requests : Step(r, FewQueries, FewBodies, FewDims)

Spec == Init /\ [][Next]_vars

\* SpecOne: one request, with query strings of every kind
WidthStrings ==
  {Undefined, Str(Decimal(0)), Str(<<"a", "b", "c">>),
   Str(<<"-", "5">>), Str(Decimal(2)), Str(Decimal(MaxDimension)),
   Str(Decimal(MaxDimension + 1)), Str(<<" ", "3", "p", "x">>),
   Str(<<"0", "x", "1", "0">>)}

HeightStrings ==
  {Undefined, Str(Decimal(0)), Str(<<"N", "a", "N">>), Str(Decimal(3))}

QualityStrings ==
  {Undefined, Str(<<>>), Str(Decimal(0)), Str(Decimal(1)), Str(Decimal(MaxQuality)),
   Str(Decimal(MaxQuality + 1)), Str(<<"h", "i", "g", "h">>), Str(<<"-", "1">>)}

FlagStrings == {Str(TrueString), Str(<<"T", "R", "U", "E">>)}

AllQueries ==
  {[width |-> w, height |-> h, quality |-> q, maintainAspectRatio |-> m] :
     w \in WidthStrings, h \in HeightStrings, q \in QualityStrings, m \in FlagStrings}

SomeDims == {<<5, 1>>, <<1, 7>>}

NextOne == Tick \/ Step(1, AllQueries, Bodies, SomeDims)

SpecOne == Init /\ [][NextOne]_vars

\* SpecPlan: one request, every requested box of 1..MaxSide (or a missing
\* side) against every source of 1..MaxDim
SideStrings == {Undefined} \cup {Str(Decimal(n)) : n \in 1..MaxSide}

PlanQueries ==
  {[width |-> w, height |-> h, quality |-> Undefined, maintainAspectRatio |-> m] :
     w \in SideStrings \cup {Str(Decimal(MaxDimension))}, h \in SideStrings,
     m \in {Undefined, Str(TrueString)}}

PlanDims == (1..MaxDim) \X (1..MaxDim)

NextPlan == Tick \/ Step(1, PlanQueries, {Body(1, 0, TextPlain)}, PlanDims)

SpecPlan == Init /\ [][NextPlan]_vars

(***************************************************************************)
(* Properties.                                                             *)
(***************************************************************************)
Abs(x) == IF x < 0 THEN -x ELSE x

AllImages(body) == \A k \in 1..Len(body) : StartsWith(body[k], ImagePrefix)

\* the request failed in the catch block
ConversionFailed(r) ==
  res[r].status = 500 /\ res[r].error = "Image conversion failed"

\* a query parameter as the contract wants it: absent, or an integer of lo..hi
InContract(q, lo, hi) ==
  ~q.def \/ (TruthyStr(q) /\ ParseInt(q.s).k = "num" /\ ParseInt(q.s).n \in lo..hi)

ValidQuery(query) ==
  /\ InContract(query.width, 1, MaxDimension)
  /\ InContract(query.height, 1, MaxDimension)
  /\ InContract(query.quality, 1, MaxQuality)

\* a query parameter that is given and parses to NaN or outside lo..hi
PresentAndBad(q, lo, hi) ==
  TruthyStr(q) /\ (ParseInt(q.s).k = "nan" \/ ParseInt(q.s).n \notin lo..hi)

\* C1: a request with valid parameters whose N files (1 <= N <= 20) are all
\* processed without an exception is answered 200 with exactly N urls, and
\* the i-th url names the file written for the i-th uploaded file; no 200
\* response carries anything else.
C1_UrlsMatchInputs ==
  \A r \in Requests :
    /\ ( /\ req[r].pc = "done"
         /\ ValidQuery(req[r].query)
         /\ Len(req[r].body) \in 1..FilesLimit
         /\ AllImages(req[r].body)
         /\ ~ConversionFailed(r) )
       => res[r].status = 200
    /\ res[r].status = 200
       => /\ res[r].hasUrls
          /\ Len(res[r].urls) = Len(req[r].body)
          /\ Len(req[r].outputs) = Len(req[r].body)
          /\ \A i \in 1..Len(res[r].urls) : res[r].urls[i] = Url(req[r].outputs[i])

C1_Witness ==
  \E r \in Requests :
    /\ res[r].status = 200
    /\ ValidQuery(req[r].query)
    /\ Len(res[r].urls) = 2
    /\ res[r].urls[1] # res[r].urls[2]

\* C2 (as claimed): a width or height that is given and parses to NaN or to
\* a value outside [1,5000] (0 and negatives included) is answered 400 and
\* no image is processed.
C2_BadDimensionRejected ==
  \A r \in Requests :
    ( /\ req[r].entered
      /\ \/ PresentAndBad(req[r].query.width, 1, MaxDimension)
         \/ PresentAndBad(req[r].query.height, 1, MaxDimension) )
    => /\ res[r].status = 400
       /\ req[r].pc = "done"
       /\ req[r].i = 0

\* C3 (as claimed): more than 20 files in one request are answered 400 with
\* the message about the maximum, never 500.
C3_TooManyFilesIs400 ==
  \A r \in Requests :
    ( /\ req[r].pc = "done"
      /\ Len(req[r].body) > FilesLimit
      /\ AllImages(req[r].body) )
    => /\ res[r].status = 400
       /\ res[r].error = "Maximum 20 images allowed"

\* C4 (as claimed): a request with any file whose MIME type does not start
\* with "image/" is answered 400 "Only image files are allowed", the
\* handler body never runs and no output file is written for it.
C4_NonImageRejected ==
  \A r \in Requests :
    ( /\ req[r].pc = "done"
      /\ ~AllImages(req[r].body) )
    => /\ res[r].status = 400
       /\ res[r].error = "Only image files are allowed"
       /\ ~req[r].entered
       /\ req[r].outputs = <<>>
       /\ \A f \in OutputNames : disk[f][1] # r

\* C5: when the processing of image k throws, the batch stops: the answer
\* is 500 "Image conversion failed" without urls, the request takes no
\* further step, nothing of images k+1..N was processed or written, and
\* the files written for images 1..k-1 are still on disk.
C5_FailureAbortsBatch ==
  \A r \in Requests :
    ConversionFailed(r)
    => /\ req[r].pc = "done"
       /\ ~ENABLED (Step(r, AllQueries, Bodies, SomeDims))
       /\ ~res[r].hasUrls
       /\ res[r].urls = <<>>
       /\ req[r].i \in 1..req[r].nfiles
       /\ Len(req[r].outputs) = req[r].i - 1
       /\ \A j \in 1..Len(req[r].outputs) : disk[req[r].outputs[j]] # NoFile
       /\ \A f \in OutputNames : disk[f][1] = r => disk[f][2] <= req[r].i

C5_Witness ==
  \E r \in Requests :
    /\ ConversionFailed(r)
    /\ req[r].nfiles = 2
    /\ req[r].i = 2
    /\ Len(req[r].outputs) = 1
    /\ disk[req[r].outputs[1]] = <<r, 1>>

\* C6: once the handler runs, a quality that is given and parses to NaN or
\* outside [1,100] is answered 400; with quality absent the request is
\* rejected as invalid only for its width or height, and every image is
\* encoded with quality 80.
C6_QualityChecked ==
  \A r \in Requests :
    req[r].entered
    => /\ PresentAndBad(req[r].query.quality, 1, MaxQuality)
          => res[r].status = 400 /\ req[r].i = 0
       /\ ~req[r].query.quality.def
          => /\ ( /\ res[r].status = 400
                  /\ res[r].error = "Invalid width, height, or quality" )
                => \/ req[r].width.k = "num" /\ req[r].width.n \notin 1..MaxDimension
                   \/ req[r].height.k = "num" /\ req[r].height.n \notin 1..MaxDimension
             /\ req[r].pc = "toFile" => req[r].loc.image.quality = Num(80)
             /\ res[r].status = 200 => req[r].loc.image.quality = Num(80)

C6_Witness ==
  \E r \in Requests :
    /\ ~req[r].query.quality.def
    /\ req[r].pc = "toFile"
    /\ req[r].i = 2
    /\ req[r].loc.image.quality = Num(80)

\* C7: with maintainAspectRatio and both width and height given, the plan
\* of every source image stays within the box, and its ratio is the
\* source's up to the rounding of one dimension by one pixel.
C7_PlanFitsBox ==
  \A r \in Requests :
    ( /\ req[r].pc = "toFile"
      /\ req[r].maintainAspectRatio
      /\ Truthy(req[r].width) /\ Truthy(req[r].height) )
    => LET l == req[r].loc
           cross == l.targetWidth.n * l.originalHeight
                    - l.targetHeight.n * l.originalWidth
       IN /\ l.targetWidth.k = "num" /\ l.targetHeight.k = "num"
          /\ l.targetWidth.n <= req[r].width.n
          /\ l.targetHeight.n <= req[r].height.n
          /\ \/ Abs(cross) <= l.originalHeight
             \/ Abs(cross) <= l.originalWidth

C7_Witness ==
  \E r \in Requests :
    /\ req[r].pc = "toFile"
    /\ req[r].maintainAspectRatio
    /\ req[r].width = Num(3) /\ req[r].height = Num(2)
    /\ req[r].loc.originalWidth = 1 /\ req[r].loc.originalHeight = 1
    /\ req[r].loc.targetWidth = Num(2)

\* C8 (as claimed): the names of any two output files written, for two
\* images of one request or of two requests, differ.
C8_NamesNeverCollide ==
  \A r1 \in Requests, r2 \in Requests :
    \A i1 \in 1..Len(req[r1].outputs), i2 \in 1..Len(req[r2].outputs) :
      <<r1, i1>> # <<r2, i2>> => req[r1].outputs[i1] # req[r2].outputs[i2]

\* the case C9 is about: maintainAspectRatio, width given, height not
WidthOnly(r) ==
  /\ req[r].pc = "toFile"
  /\ req[r].maintainAspectRatio
  /\ Truthy(req[r].width)
  /\ ~req[r].query.height.def

\* h is Math.round of width / r, r being originalWidth / originalHeight:
\* the nearest integer, the upper one at a half unless r is inexact
IsRounded(h, width, originalWidth, originalHeight) ==
  LET d == 2 * h * originalWidth - 2 * width * originalHeight
  IN /\ d <= originalWidth
     /\ \/ d > -originalWidth
        \/ d = -originalWidth /\ ~ExactRatio(originalWidth, originalHeight)

\* C9 (as claimed): with maintainAspectRatio and only width given, resize is
\* called with the requested width and with height round(width / r), also
\* when width / r is below 0.5.
C9_HeightIsRounded ==
  \A r \in Requests :
    WidthOnly(r)
    => LET l == req[r].loc
       IN /\ l.image.resized
          /\ l.image.w = req[r].width
          /\ l.image.h.k = "num"
          /\ IsRounded(l.image.h.n, req[r].width.n, l.originalWidth, l.originalHeight)

\* C9 (amended): resize is called with the requested width, and with height
\* round(width / r) when that is at least 1; when width / r is below 0.5
\* the height is passed as null.
C9_HeightIsRoundedOrNull ==
  \A r \in Requests :
    WidthOnly(r)
    => LET l == req[r].loc
       IN /\ l.image.resized
          /\ l.image.w = req[r].width
          /\ IF 2 * req[r].width.n * l.originalHeight < l.originalWidth
             THEN l.image.h = Null
             ELSE /\ l.image.h.k = "num"
                  /\ l.image.h.n >= 1
                  /\ IsRounded(l.image.h.n, req[r].width.n,
                               l.originalWidth, l.originalHeight)

C9_Witness ==
  \E r \in Requests :
    /\ WidthOnly(r)
    /\ req[r].width = Num(1)
    /\ req[r].loc.originalWidth = 3 /\ req[r].loc.originalHeight = 1
    /\ req[r].loc.image.resized
    /\ req[r].loc.image.h = Null

\* C10: resize is called only when a target dimension is set, each of its
\* arguments is null or a positive integer (never 0, never NaN), and with
\* both target dimensions unset it is not called.
C10_ResizeArguments ==
  \A r \in Requests :
    LET l == req[r].loc
    IN /\ l.image.resized
          => /\ Truthy(l.targetWidth) \/ Truthy(l.targetHeight)
             /\ \A d \in {l.image.w, l.image.h} :
                  d = Null \/ (d.k = "num" /\ d.n >= 1)
             /\ l.image.w # Null \/ l.image.h # Null
       /\ ( /\ req[r].pc \in {"toFile", "done"}
            /\ ~Truthy(l.targetWidth) /\ ~Truthy(l.targetHeight) )
          => ~l.image.resized

C10_Witness ==
  \E r \in Requests :
    /\ req[r].pc = "toFile"
    /\ req[r].width = NaN
    /\ req[r].loc.targetHeight = Num(3)
    /\ req[r].loc.image.resized
    /\ req[r].loc.image.w = Null
    /\ req[r].loc.image.h = Num(3)

====
